---- MODULE Spec2Model ----
(***************************************************************************)
(* Model of neuroanalysis/util/mies_nwb_parsing.py:                        *)
(*   parse_lab_notebook   - three passes over the MIES lab notebook        *)
(*   parse_stim_wave_note - decoder of the stimulus wave note              *)
(*                                                                         *)
(* Conventions.  Strings (field names, textual cells, the wave note) are   *)
(* sequences of one-character strings, so that split / startswith / int()  *)
(* are computed character by character.  Numeric cells are integer-valued  *)
(* floats; NaN is the distinguished value NaN.  Grids are 0-based          *)
(* functions  field -> column -> cell, as in the numpy arrays.             *)
(***************************************************************************)
EXTENDS Integers, Sequences, FiniteSets, TLC

VARIABLES
    pc,            \* position in parse_lab_notebook: pass1, pass2, pass3, done, error
    err,           \* the exception that ended the call ("none" if none)
    nb_keys,       \* numericalKeys[0]
    nb,            \* numericalValues, a sequence of rows (row i of the code is nb[i+1])
    i,             \* next index nb_iter yields
    sweep_entries, \* sweep id -> accumulator grid (before finalization)
    order,         \* key order of the OrderedDict sweep_entries
    tp_entries,    \* merged test-pulse records
    fin,           \* number of sweeps finalized by the loop of pass 2
    meta,          \* sweep id -> channel -> (field name -> value), the finalized value
    text_nb_keys,  \* textualKeys[0]
    rec,           \* the textual row the loop of pass 3 is looking at
    t,             \* number of textual rows consumed
    entry,         \* SpecFinalize: the record the broadcasts are applied to
    prev,          \* SpecFinalize: the record before the last application
    runs,          \* SpecFinalize: number of applications so far
    rec_notebook,  \* SpecWave: the argument of parse_stim_wave_note
    wpc,           \* SpecWave: position in parse_stim_wave_note
    version,       \* SpecWave: returned version
    epochs         \* SpecWave: returned epochs

vars == <<pc, err, nb_keys, nb, i, sweep_entries, order, tp_entries, fin, meta,
          text_nb_keys, rec, t, entry, prev, runs, rec_notebook, wpc, version, epochs>>

nbVars   == <<pc, err, nb_keys, nb, i, sweep_entries, order, tp_entries, fin, meta,
              text_nb_keys, rec, t>>
finVars  == <<entry, prev, runs>>
waveVars == <<rec_notebook, wpc, version, epochs>>

----------------------------------------------------------------------------
(* Bounds of the model *)

MaxRows == 3       \* rows of the numeric table
MaxTextRows == 2   \* rows of the textual table
MaxLines == 3      \* lines of a wave note

----------------------------------------------------------------------------
(* Values *)

NaN == -1                        \* np.nan: the missing marker of the numeric table
isnan(x) == x = NaN              \* np.isnan

GlobalCol == 8                   \* entry[:,8]: the "global" column
NumCols == GlobalCol + 1         \* columns of a numeric row
Cols == 0 .. (NumCols - 1)
HeaderFields == 4                \* entry[:4]

EmptyStr == << >>                \* ''

\* field names
K_SweepNum  == <<"S","w","e","e","p","N","u","m">>
K_TimeStamp == <<"T","i","m","e","S","t","a","m","p">>
K_UTC       == <<"U","T","C">>
K_EntrySourceType == <<"E","n","t","r","y","S","o","u","r","c","e","T","y","p","e">>
K_Clamp     == <<"C","l","a","m","p">>
K_AsyncAD0  == <<"A","s","y","n","c"," ","A","D"," ","0">>
K_Label     == <<"L","a","b","e","l">>
K_Note      == <<"N","o","t","e">>
AsyncPrefix == <<"A","s","y","n","c"," ","A","D"," ">>

\* the two numeric field dictionaries of the model: with the discriminator and
\* (older files) without it
NbKeysNew    == <<K_SweepNum, K_TimeStamp, K_UTC, K_EntrySourceType, K_AsyncAD0, K_Label>>
NbKeysLegacy == <<K_SweepNum, K_TimeStamp, K_UTC, K_Clamp, K_AsyncAD0, K_Label>>
NumFields == Len(NbKeysNew)
Fields == 0 .. (NumFields - 1)

\* str.startswith
StartsWith(s, p) == Len(s) >= Len(p) /\ SubSeq(s, 1, Len(p)) = p

\* nb_fields = OrderedDict((k, i) for i, k in enumerate(keys)); .get(name, None)
HasField(keys, name) == \E j \in 1 .. Len(keys) : keys[j] = name
FieldIndex(keys, name) ==
    (CHOOSE j \in 1 .. Len(keys) :
        keys[j] = name /\ \A j2 \in 1 .. Len(keys) : keys[j2] = name => j2 <= j) - 1

\* row i of the numeric table
Row(k) == nb[k + 1]
NRows == Len(nb)                 \* nb.shape[0]

----------------------------------------------------------------------------
(* Pass 1: classification and row merge *)

\* lines 49-53: the row is classified by EntrySourceType alone
Classified(keys, r) ==
    HasField(keys, K_EntrySourceType)
        /\ ~isnan(r[FieldIndex(keys, K_EntrySourceType)][0])
is_tp_record(keys, r) ==
    Classified(keys, r) /\ r[FieldIndex(keys, K_EntrySourceType)][0] # 0
is_sweep_record(keys, r) ==
    Classified(keys, r) /\ r[FieldIndex(keys, K_EntrySourceType)][0] = 0

\* lines 71-72: mask = ~isnan(rec2); rec[mask] = rec2[mask]
MergeTPFirstWins(r, r2) ==
    [f \in Fields |-> [c \in Cols |-> IF isnan(r[f][c]) THEN r2[f][c] ELSE r[f][c]]]
MergeTP(r, r2) ==
    [f \in Fields |-> [c \in Cols |-> IF ~isnan(r2[f][c]) THEN r2[f][c] ELSE r[f][c]]]

\* lines 81-82: mask = ~isnan(rec); sweep_entries[sweep_num][mask] = rec[mask]
MergeSweepNoMask(acc, r) == r
MergeSweep(acc, r) ==
    [f \in Fields |-> [c \in Cols |-> IF ~isnan(r[f][c]) THEN r[f][c] ELSE acc[f][c]]]

\* line 69: next(nb_iter) inside the test-pulse branch
TPAdvanceNoSkip(k) == k + 1
TPAdvance(k) == k + 2

\* int(sweep_num) for a float that is not NaN (the cells of the model are
\* integer-valued, so truncation leaves them as they are)
IntOfFloat(x) == x

\* lines 67-73, a following row exists
Pass1TestPulse ==
    /\ pc = "pass1" /\ i < NRows
    /\ is_tp_record(nb_keys, Row(i))
    /\ i + 1 < NRows
    /\ tp_entries' = Append(tp_entries, MergeTP(Row(i), Row(i + 1)))
    /\ i' = TPAdvance(i)
    /\ UNCHANGED <<finVars, waveVars, pc, err, nb_keys, nb, sweep_entries, order, fin, meta,
                   text_nb_keys, rec, t>>

\* line 69 on the last row: next(nb_iter) raises StopIteration
Pass1TestPulseLast ==
    /\ pc = "pass1" /\ i < NRows
    /\ is_tp_record(nb_keys, Row(i))
    /\ i + 1 >= NRows
    /\ pc' = "error" /\ err' = "StopIteration"
    /\ i' = i + 1
    /\ UNCHANGED <<finVars, waveVars, nb_keys, nb, sweep_entries, order, tp_entries, fin, meta,
                   text_nb_keys, rec, t>>

\* lines 75-82
Pass1Sweep ==
    /\ pc = "pass1" /\ i < NRows
    /\ is_sweep_record(nb_keys, Row(i))
    /\ ~isnan(Row(i)[0][0])
    /\ LET sweep_num == IntOfFloat(Row(i)[0][0]) IN
         IF sweep_num \notin DOMAIN sweep_entries
         THEN /\ sweep_entries' = sweep_entries @@ (sweep_num :> Row(i))
              /\ order' = Append(order, sweep_num)
         ELSE /\ sweep_entries' =
                    [sweep_entries EXCEPT ![sweep_num] = MergeSweep(@, Row(i))]
              /\ order' = order
    /\ i' = i + 1
    /\ UNCHANGED <<finVars, waveVars, pc, err, nb_keys, nb, tp_entries, fin, meta, text_nb_keys, rec, t>>

\* line 76: int(nan) raises ValueError
Pass1SweepNaN ==
    /\ pc = "pass1" /\ i < NRows
    /\ is_sweep_record(nb_keys, Row(i))
    /\ isnan(Row(i)[0][0])
    /\ pc' = "error" /\ err' = "ValueError"
    /\ i' = i + 1
    /\ UNCHANGED <<finVars, waveVars, nb_keys, nb, sweep_entries, order, tp_entries, fin, meta,
                   text_nb_keys, rec, t>>

\* neither is_tp_record nor is_sweep_record: the loop body does nothing
Pass1Unclassified ==
    /\ pc = "pass1" /\ i < NRows
    /\ ~Classified(nb_keys, Row(i))
    /\ i' = i + 1
    /\ UNCHANGED <<finVars, waveVars, pc, err, nb_keys, nb, sweep_entries, order, tp_entries, fin, meta,
                   text_nb_keys, rec, t>>

\* nb_iter is exhausted
Pass1Done ==
    /\ pc = "pass1" /\ i >= NRows
    /\ pc' = "pass2"
    \* nb, nb_iter and tp_entries are never read after the loop (lines 84-152;
    \* the uses of tp_entries at lines 153-155 are commented out)
    /\ nb' = << >> /\ i' = 0 /\ tp_entries' = << >>
    /\ UNCHANGED <<finVars, waveVars, err, nb_keys, sweep_entries, order, fin, meta, text_nb_keys, rec, t>>

----------------------------------------------------------------------------
(* Pass 2: per-sweep finalization *)

\* values of the per-channel mappings: a float, None, or a string
Float(x) == [kind |-> "float", num |-> x, str |-> EmptyStr]
None     == [kind |-> "None",  num |-> 0, str |-> EmptyStr]
Str(s)   == [kind |-> "str",   num |-> 0, str |-> s]

KeySet(keys) == {keys[j] : j \in 1 .. Len(keys)}

\* lines 86-87: mask = ~isnan(entry[:,8]); entry[mask] = entry[:,8:9][mask]
GlobalBroadcast(e) ==
    [f \in Fields |->
        IF ~isnan(e[f][GlobalCol]) THEN [c \in Cols |-> e[f][GlobalCol]] ELSE e[f]]

\* line 90: entry[:4] = entry[:4, 0:1]
HeaderBroadcastShifted(e) ==
    [f \in Fields |->
        IF f < HeaderFields THEN [c \in Cols |-> e[f + 1][0]] ELSE e[f]]
HeaderBroadcast(e) ==
    [f \in Fields |->
        IF f < HeaderFields THEN [c \in Cols |-> e[f][0]] ELSE e[f]]

\* lines 95-98: fields named 'Async AD ...' are copied from column 0
AsyncBroadcast(keys, e) ==
    [f \in Fields |->
        IF StartsWith(keys[f + 1], AsyncPrefix) THEN [c \in Cols |-> e[f][0]] ELSE e[f]]

\* lines 86-98 in order
Broadcasts(keys, e) == AsyncBroadcast(keys, HeaderBroadcast(GlobalBroadcast(e)))

\* lines 101-104: one mapping per column, NaN replaced by None
ToMeta(keys, e) ==
    [c \in Cols |->
        [k \in KeySet(keys) |->
            LET j == FieldIndex(keys, k)
            IN  IF isnan(e[j][c]) THEN None ELSE Float(e[j][c])]]

\* one iteration of the loop of lines 84-105
Pass2Finalize ==
    /\ pc = "pass2" /\ fin < Len(order)
    /\ LET swid == order[fin + 1] IN
         /\ meta' = meta @@ (swid :> ToMeta(nb_keys, Broadcasts(nb_keys, sweep_entries[swid])))
         /\ sweep_entries' = [s \in DOMAIN sweep_entries \ {swid} |-> sweep_entries[s]]
    /\ fin' = fin + 1
    /\ UNCHANGED <<finVars, waveVars, pc, err, nb_keys, nb, i, order, tp_entries, text_nb_keys, rec, t>>

----------------------------------------------------------------------------
(* Pass 3: textual overlay *)

TextKeysNew    == <<K_SweepNum, K_EntrySourceType, K_Label, K_Note>>
TextKeysLegacy == <<K_SweepNum, K_Label, K_Note>>

Digits == <<"0","1","2","3","4","5","6","7","8","9">>
IsDigit(ch) == \E d \in 1 .. 10 : Digits[d] = ch
DigitVal(ch) == (CHOOSE d \in 1 .. 10 : Digits[d] = ch) - 1

\* int(str) for the cells of the model: an optional sign followed by one or
\* more digits is an integer; the other cells ('' and text without digits)
\* raise ValueError
IsIntLiteral(s) ==
    LET body == IF Len(s) > 0 /\ s[1] \in {"-", "+"} THEN Tail(s) ELSE s
    IN  Len(body) > 0 /\ \A p \in 1 .. Len(body) : IsDigit(body[p])
RECURSIVE DigitsVal(_)
DigitsVal(s) ==
    IF s = << >> THEN 0
    ELSE 10 * DigitsVal(SubSeq(s, 1, Len(s) - 1)) + DigitVal(s[Len(s)])
IntOfStr(s) ==
    IF s[1] = "-" THEN 0 - DigitsVal(Tail(s))
    ELSE IF s[1] = "+" THEN DigitsVal(Tail(s))
    ELSE DigitsVal(s)

\* a textual row: TextFields x NumCols strings, the last column the overflow
\* slot; cells not named are ''
TextRow(keys, sw, est, lab0, note0, noteOv) ==
    [f \in 0 .. (Len(keys) - 1) |->
        [c \in Cols |->
            IF keys[f + 1] = K_SweepNum /\ c = 0 THEN sw
            ELSE IF keys[f + 1] = K_EntrySourceType /\ c = 0 THEN est
            ELSE IF keys[f + 1] = K_Label /\ c = 0 THEN lab0
            ELSE IF keys[f + 1] = K_Note /\ c = 0 THEN note0
            ELSE IF keys[f + 1] = K_Note /\ c = GlobalCol THEN noteOv
            ELSE EmptyStr]]

TextTemplates ==
    { <<<<"1">>, <<"0">>, <<"x">>, <<"n">>, EmptyStr>>,
      <<<<"1">>, <<"0">>, EmptyStr, EmptyStr, <<"o">>>>,
      <<<<"1">>, <<"0">>, <<"y">>, <<"m">>, EmptyStr>>,
      <<<<"2">>, <<"0">>, <<"x">>, <<"n">>, <<"o">>>>,
      <<<<"a","b","c">>, <<"0">>, <<"x">>, <<"n">>, EmptyStr>>,
      <<<<"9">>, <<"0">>, <<"x">>, <<"n">>, EmptyStr>>,
      <<<<"1">>, <<"1">>, <<"x">>, <<"n">>, EmptyStr>>,
      <<<<"1">>, EmptyStr, <<"x">>, <<"n">>, EmptyStr>> }
TextRows(keys) == {TextRow(keys, x[1], x[2], x[3], x[4], x[5]) : x \in TextTemplates}

\* lines 116-124: the source type of a textual row could be read
SourceTypeReadable(keys, r) ==
    HasField(keys, K_EntrySourceType)
        => IsIntLiteral(r[FieldIndex(keys, K_EntrySourceType)][0])
source_type(keys, r) ==
    IF HasField(keys, K_EntrySourceType)
    THEN IntOfStr(r[FieldIndex(keys, K_EntrySourceType)][0])
    ELSE 0

\* lines 143-145: "take value from last column if this one is empty"; the
\* statement  val == rec[i, -1]  compares and assigns nothing
TakeOverflow(val, ov) == val

\* lines 137-150 for one row and the list of mappings of its sweep
Overlay(m, keys, r) ==
    [c \in Cols |->
        IF c = NumCols - 1 THEN m[c]           \* rec[i, :-1] leaves the last column out
        ELSE LET written ==
                    {k \in KeySet(keys) :
                        /\ k \notin DOMAIN m[c]
                        /\ TakeOverflow(r[FieldIndex(keys, k)][c],
                                        r[FieldIndex(keys, k)][NumCols - 1]) # EmptyStr}
             IN  [k \in DOMAIN m[c] \cup written |->
                    IF k \in DOMAIN m[c] THEN m[c][k]
                    ELSE Str(TakeOverflow(r[FieldIndex(keys, k)][c],
                                          r[FieldIndex(keys, k)][NumCols - 1]))]]

\* the loop of pass 2 is over; the textual keys are loaded (lines 109-113)
Pass2Done ==
    /\ pc = "pass2" /\ fin >= Len(order)
    /\ pc' = "pass3"
    /\ text_nb_keys' \in {TextKeysNew, TextKeysLegacy}
    /\ UNCHANGED <<finVars, waveVars, err, nb_keys, nb, i, sweep_entries, order, tp_entries, fin, meta, rec, t>>

\* lines 120-124: int() of the source type raises ValueError; continue
Pass3SkipSourceType ==
    /\ pc = "pass3" /\ t < MaxTextRows
    /\ \E r \in TextRows(text_nb_keys) :
         /\ ~SourceTypeReadable(text_nb_keys, r)
         /\ rec' = r
    /\ t' = t + 1
    /\ UNCHANGED <<finVars, waveVars, pc, err, nb_keys, nb, i, sweep_entries, order, tp_entries, fin, meta,
                   text_nb_keys>>

\* lines 126-128: not a sweep record; continue
Pass3SkipNonSweep ==
    /\ pc = "pass3" /\ t < MaxTextRows
    /\ \E r \in TextRows(text_nb_keys) :
         /\ SourceTypeReadable(text_nb_keys, r)
         /\ source_type(text_nb_keys, r) # 0
         /\ rec' = r
    /\ t' = t + 1
    /\ UNCHANGED <<finVars, waveVars, pc, err, nb_keys, nb, i, sweep_entries, order, tp_entries, fin, meta,
                   text_nb_keys>>

\* lines 130-134: int(rec[0,0]) raises ValueError; continue
Pass3SkipSweepId ==
    /\ pc = "pass3" /\ t < MaxTextRows
    /\ \E r \in TextRows(text_nb_keys) :
         /\ SourceTypeReadable(text_nb_keys, r)
         /\ source_type(text_nb_keys, r) = 0
         /\ ~IsIntLiteral(r[0][0])
         /\ rec' = r
    /\ t' = t + 1
    /\ UNCHANGED <<finVars, waveVars, pc, err, nb_keys, nb, i, sweep_entries, order, tp_entries, fin, meta,
                   text_nb_keys>>

\* line 135: sweep_entries[sweep_id] raises KeyError
Pass3KeyError ==
    /\ pc = "pass3" /\ t < MaxTextRows
    /\ \E r \in TextRows(text_nb_keys) :
         /\ SourceTypeReadable(text_nb_keys, r)
         /\ source_type(text_nb_keys, r) = 0
         /\ IsIntLiteral(r[0][0])
         /\ IntOfStr(r[0][0]) \notin DOMAIN meta
         /\ rec' = r
    /\ t' = t + 1
    /\ pc' = "error" /\ err' = "KeyError"
    /\ UNCHANGED <<finVars, waveVars, nb_keys, nb, i, sweep_entries, order, tp_entries, fin, meta,
                   text_nb_keys>>

\* lines 135-150
Pass3Overlay ==
    /\ pc = "pass3" /\ t < MaxTextRows
    /\ \E r \in TextRows(text_nb_keys) :
         /\ SourceTypeReadable(text_nb_keys, r)
         /\ source_type(text_nb_keys, r) = 0
         /\ IsIntLiteral(r[0][0])
         /\ IntOfStr(r[0][0]) \in DOMAIN meta
         /\ rec' = r
         /\ meta' = [meta EXCEPT ![IntOfStr(r[0][0])] = Overlay(@, text_nb_keys, r)]
    /\ t' = t + 1
    /\ UNCHANGED <<finVars, waveVars, pc, err, nb_keys, nb, i, sweep_entries, order, tp_entries, fin,
                   text_nb_keys>>

\* text_nb is exhausted; line 152
Pass3Done ==
    /\ pc = "pass3"
    /\ pc' = "done"
    /\ UNCHANGED <<finVars, waveVars, err, nb_keys, nb, i, sweep_entries, order, tp_entries, fin, meta,
                   text_nb_keys, rec, t>>

----------------------------------------------------------------------------
(* The numeric tables of the model *)

\* a numeric row: NaN everywhere but the sweep index (field 0, column 0), the
\* cell of field 3 in column 0 (EntrySourceType when the dictionary has it),
\* the Async AD cell of column 0, and Label in column 1 and the global column
NumRow(sw, est, async0, lab1, labG) ==
    [f \in Fields |->
        [c \in Cols |->
            IF f = 0 /\ c = 0 THEN sw
            ELSE IF f = 3 /\ c = 0 THEN est
            ELSE IF f = 4 /\ c = 0 THEN async0
            ELSE IF f = 5 /\ c = 1 THEN lab1
            ELSE IF f = 5 /\ c = GlobalCol THEN labG
            ELSE NaN]]

NumTemplates ==
    { <<1, 0, NaN, NaN, NaN>>,
      <<1, 0, NaN, 3, NaN>>,
      <<1, 0, 5, 7, NaN>>,
      <<2, 0, NaN, 3, 42>>,
      <<NaN, 0, NaN, 3, NaN>>,
      <<1, 1, NaN, 3, NaN>>,
      <<NaN, 1, NaN, 7, NaN>>,
      <<2, 1, NaN, NaN, NaN>>,
      <<1, NaN, NaN, 3, NaN>> }
NumRows == {NumRow(x[1], x[2], x[3], x[4], x[5]) : x \in NumTemplates}

RECURSIVE Tables(_)
Tables(n) ==
    IF n = 0 THEN {<< >>}
    ELSE LET shorter == Tables(n - 1)
         IN  shorter \cup {Append(tb, r) : tb \in {x \in shorter : Len(x) = n - 1}, r \in NumRows}

----------------------------------------------------------------------------
(* parse_lab_notebook *)

IdleFin  == entry = << >> /\ prev = << >> /\ runs = 0
IdleWave == rec_notebook = << >> /\ wpc = "idle" /\ version = 0 /\ epochs = << >>
IdleNb ==
    /\ pc = "idle" /\ err = "none" /\ nb_keys = << >> /\ nb = << >> /\ i = 0
    /\ sweep_entries = << >> /\ order = << >> /\ tp_entries = << >> /\ fin = 0
    /\ meta = << >> /\ text_nb_keys = << >> /\ rec = << >> /\ t = 0

\* lines 25-39
Init ==
    /\ pc = "pass1" /\ err = "none"
    /\ nb_keys \in {NbKeysNew, NbKeysLegacy}
    /\ nb \in Tables(MaxRows)
    /\ i = 0
    /\ sweep_entries = << >> /\ order = << >> /\ tp_entries = << >>
    /\ fin = 0 /\ meta = << >>
    /\ text_nb_keys = << >> /\ rec = << >> /\ t = 0
    /\ IdleFin /\ IdleWave

Next ==
    \/ Pass1TestPulse
    \/ Pass1TestPulseLast
    \/ Pass1Sweep
    \/ Pass1SweepNaN
    \/ Pass1Unclassified
    \/ Pass1Done
    \/ Pass2Finalize
    \/ Pass2Done
    \/ Pass3SkipSourceType
    \/ Pass3SkipNonSweep
    \/ Pass3SkipSweepId
    \/ Pass3KeyError
    \/ Pass3Overlay
    \/ Pass3Done

Spec == Init /\ [][Next]_vars

----------------------------------------------------------------------------
(* Properties of pass 1 *)

\* the rows k, from <= k < upto, that the scan has handled as sweep records of
\* sweep s, in scan order (a row consumed as the second row of a test pulse
\* is not handled on its own)
RECURSIVE SweepRowsOf(_, _, _)
SweepRowsOf(s, from, upto) ==
    IF from >= upto THEN << >>
    ELSE IF is_tp_record(nb_keys, Row(from)) THEN SweepRowsOf(s, from + 2, upto)
    ELSE IF /\ is_sweep_record(nb_keys, Row(from))
            /\ ~isnan(Row(from)[0][0])
            /\ IntOfFloat(Row(from)[0][0]) = s
         THEN <<from>> \o SweepRowsOf(s, from + 1, upto)
    ELSE SweepRowsOf(s, from + 1, upto)

\* the value of cell (f, c) in the last row of ks that has it, NaN if none has
RECURSIVE LastNonMissing(_, _, _)
LastNonMissing(ks, f, c) ==
    IF ks = << >> THEN NaN
    ELSE IF ~isnan(Row(ks[Len(ks)])[f][c]) THEN Row(ks[Len(ks)])[f][c]
    ELSE LastNonMissing(SubSeq(ks, 1, Len(ks) - 1), f, c)

\* C1: after each row of pass 1, every cell of every sweep accumulator holds the
\* value of the most recently processed sweep-record row of that sweep id in
\* which the cell is non-missing, and is missing only if it is missing in all
\* of them.
C1_LastNonMissingWins ==
    pc = "pass1" =>
        \A s \in DOMAIN sweep_entries : \A f \in Fields : \A c \in Cols :
            sweep_entries[s][f][c] = LastNonMissing(SweepRowsOf(s, 0, i), f, c)

\* three rows of sweep 1 have been merged: Label of channel 1 was 3, then 7,
\* then missing, and the accumulator holds 7
C1_Witness ==
    /\ pc = "pass1" /\ i = 3
    /\ SweepRowsOf(1, 0, i) = <<0, 1, 2>>
    /\ Row(0)[5][1] = 3 /\ Row(1)[5][1] = 7 /\ isnan(Row(2)[5][1])
    /\ sweep_entries[1][5][1] = 7

\* the step of pass 1 that handles a test-pulse row which has a following row
TPStep ==
    /\ pc = "pass1" /\ i < NRows /\ i + 1 < NRows
    /\ HasField(nb_keys, K_EntrySourceType)
    /\ ~isnan(Row(i)[FieldIndex(nb_keys, K_EntrySourceType)][0])
    /\ Row(i)[FieldIndex(nb_keys, K_EntrySourceType)][0] # 0

C3_LegacyRowIsSweepRecord ==
    [][(/\ pc = "pass1" /\ i < NRows
        /\ \/ ~HasField(nb_keys, K_EntrySourceType)
           \/ isnan(Row(i)[FieldIndex(nb_keys, K_EntrySourceType)][0])
        /\ ~isnan(Row(i)[0][0]))
       => IntOfFloat(Row(i)[0][0]) \in DOMAIN sweep_entries']_vars

\* C8: a sweep record (EntrySourceType = 0) whose sweep-id cell is NaN is
\* skipped: no error, no accumulator created or changed, the scan goes on.
C8_NaNSweepIdSkipped ==
    [][(/\ pc = "pass1" /\ i < NRows
        /\ HasField(nb_keys, K_EntrySourceType)
        /\ Row(i)[FieldIndex(nb_keys, K_EntrySourceType)][0] = 0
        /\ isnan(Row(i)[0][0]))
       => /\ pc' = "pass1" /\ err' = "none"
          /\ sweep_entries' = sweep_entries
          /\ i' = i + 1]_vars

\* C10: a test-pulse row that has a following row consumes both: the scan
\* advances by two and no sweep accumulator is created or changed, whatever
\* the following row holds.
C10_TestPulseConsumesTwoRows ==
    [][TPStep =>
        /\ pc' = "pass1" /\ err' = "none"
        /\ i' = i + 2
        /\ sweep_entries' = sweep_entries
        /\ order' = order]_vars

\* a test pulse has swallowed a row that, on its own, is a sweep record of a
\* sweep that has no accumulator; a third row is still to be examined
C10_Witness ==
    /\ pc = "pass1" /\ i = 2 /\ NRows = 3 /\ Len(tp_entries) = 1
    /\ is_tp_record(nb_keys, Row(0))
    /\ is_sweep_record(nb_keys, Row(1)) /\ Row(1)[0][0] = 2
    /\ 2 \notin DOMAIN sweep_entries

----------------------------------------------------------------------------
(* Properties of pass 3 *)

Channels == 0 .. (NumCols - 2)

\* the step of pass 3 that reads the textual row rec' and finds it a sweep
\* record (source type 0, or no EntrySourceType field)
TextSweepRowStep ==
    /\ pc = "pass3" /\ t' = t + 1
    /\ \/ ~HasField(text_nb_keys, K_EntrySourceType)
       \/ rec'[FieldIndex(text_nb_keys, K_EntrySourceType)][0] = <<"0">>

\* C4: a field that already has a non-absent value in a channel's mapping is
\* left unchanged; a field with no value or only None there is set to the
\* textual cell when the cell is non-empty.
C4_TextFirstWriterWins ==
    [][(/\ TextSweepRowStep
        /\ IsIntLiteral(rec'[0][0])
        /\ IntOfStr(rec'[0][0]) \in DOMAIN meta)
       => LET s == IntOfStr(rec'[0][0]) IN
          \A k \in KeySet(text_nb_keys) : \A c \in Channels :
            LET old  == meta[s][c]
                cell == rec'[FieldIndex(text_nb_keys, k)][c]
            IN  /\ (k \in DOMAIN old /\ old[k] # None)
                      => meta'[s][c][k] = old[k]
                /\ ((k \notin DOMAIN old \/ old[k] = None) /\ cell # EmptyStr)
                      => (k \in DOMAIN meta'[s][c] /\ meta'[s][c][k] = Str(cell))]_vars

\* C5: a textual sweep row whose sweep id is no integer, or is no key of the
\* output, is dropped: no error is raised and no metadata changes.
C5_BadTextRowSkipped ==
    [][(/\ TextSweepRowStep
        /\ \/ ~IsIntLiteral(rec'[0][0])
           \/ IntOfStr(rec'[0][0]) \notin DOMAIN meta)
       => /\ pc' = "pass3" /\ err' = "none"
          /\ meta' = meta]_vars

\* C7: where a channel's mapping has no value for a field and the channel cell
\* is empty, a non-empty overflow cell of the row is written under the field.
C7_OverflowFallback ==
    [][(/\ TextSweepRowStep
        /\ IsIntLiteral(rec'[0][0])
        /\ IntOfStr(rec'[0][0]) \in DOMAIN meta)
       => LET s == IntOfStr(rec'[0][0]) IN
          \A k \in KeySet(text_nb_keys) : \A c \in Channels :
            LET cell == rec'[FieldIndex(text_nb_keys, k)][c]
                ov   == rec'[FieldIndex(text_nb_keys, k)][NumCols - 1]
            IN  (k \notin DOMAIN meta[s][c] /\ cell = EmptyStr /\ ov # EmptyStr)
                   => (k \in DOMAIN meta'[s][c] /\ meta'[s][c][k] = Str(ov))]_vars

----------------------------------------------------------------------------
(* Finalization applied twice (SpecFinalize) *)

\* the cells of one field in columns 0, 1 and the global column; the other
\* columns are NaN
FieldPatterns ==
    { <<NaN, NaN, NaN>>, <<1, 2, NaN>>, <<NaN, 2, NaN>>, <<NaN, 2, 3>>, <<1, 2, 3>> }
FinGrid(pat) ==
    [f \in Fields |->
        [c \in Cols |->
            IF c = 0 THEN pat[f][1]
            ELSE IF c = 1 THEN pat[f][2]
            ELSE IF c = GlobalCol THEN pat[f][3]
            ELSE NaN]]
FinGrids == {FinGrid(pat) : pat \in [Fields -> FieldPatterns]}

InitFinalize ==
    /\ IdleNb /\ IdleWave
    /\ entry \in FinGrids
    /\ prev = << >>
    /\ runs = 0

\* lines 86-98 applied to entry (in place); prev keeps the records it was
\* applied to
ApplyBroadcasts ==
    /\ runs < 2
    /\ prev' = Append(prev, entry)
    /\ entry' = Broadcasts(NbKeysNew, entry)
    /\ runs' = runs + 1
    /\ UNCHANGED <<nbVars, waveVars>>

NextFinalize == ApplyBroadcasts

SpecFinalize == InitFinalize /\ [][NextFinalize]_vars

\* C9: the three broadcasts, applied in order to a record that has already
\* been through them, leave every cell unchanged.
C9_FinalizeIdempotent ==
    runs = 2 => \A f \in Fields : \A c \in Cols : entry[f][c] = prev[2][f][c]

\* the first application changed the record (channel 0 and the global column
\* of a header field were missing, channel 1 was not), the second was applied
C9_Witness ==
    /\ runs = 2
    /\ prev[1] # prev[2]
    /\ isnan(prev[1][0][0]) /\ isnan(prev[1][0][GlobalCol]) /\ ~isnan(prev[1][0][1])
    /\ isnan(prev[2][0][1])
    /\ ~isnan(prev[1][5][GlobalCol]) /\ prev[2][5][0] = prev[1][5][GlobalCol]

----------------------------------------------------------------------------
(* parse_stim_wave_note (SpecWave) *)

K_Sweep   == <<"S","w","e","e","p">>
K_A       == <<"A">>
K_B       == <<"B">>
VersionPrefix == <<"V","e","r","s","i","o","n"," ","=">>          \* 'Version ='
SweepPrefix   == <<"S","w","e","e","p"," ","="," ">>          \* 'Sweep = '
EqSep         == <<" ","="," ">>          \* ' = '
NL == <<"\n">>

Line_Version2 == <<"V","e","r","s","i","o","n"," ","="," ","2",";">>
Line_Sweep3AB == <<"S","w","e","e","p"," ","="," ","3",";","A"," ","="," ","1",";","B"," ","="," ","2">>
Line_Sweep4A  == <<"S","w","e","e","p"," ","="," ","4",";","A"," ","="," ","9">>
Line_Sweep3A5 == <<"S","w","e","e","p"," ","="," ","3",";","A"," ","="," ","5",";">>
Line_Sweep3Bad == <<"S","w","e","e","p"," ","="," ","3",";","A","=","1">>
WaveLines == {Line_Version2, Line_Sweep3AB, Line_Sweep4A, Line_Sweep3A5, Line_Sweep3Bad}
SweepCounts == {3, 4}

\* the position of the first occurrence of sep in s (0 if there is none)
FindSep(s, sep) ==
    LET hits == {p \in 1 .. (Len(s) - Len(sep) + 1) : SubSeq(s, p, p + Len(sep) - 1) = sep}
    IN  IF hits = {} THEN 0 ELSE CHOOSE p \in hits : \A q \in hits : p <= q

\* str.split(sep)
RECURSIVE Split(_, _)
Split(s, sep) ==
    LET p == FindSep(s, sep)
    IN  IF p = 0 THEN <<s>>
        ELSE <<SubSeq(s, 1, p - 1)>> \o Split(SubSeq(s, p + Len(sep), Len(s)), sep)

\* str.rstrip(';')
RECURSIVE RStripSemi(_)
RStripSemi(s) ==
    IF Len(s) > 0 /\ s[Len(s)] = ";" THEN RStripSemi(SubSeq(s, 1, Len(s) - 1)) ELSE s

\* '=' in part
HasEq(part) == \E p \in 1 .. Len(part) : part[p] = "="

\* '%d' % n  for n >= 0
RECURSIVE IntToStr(_)
IntToStr(n) ==
    IF n < 10 THEN <<Digits[n + 1]>> ELSE IntToStr(n \div 10) \o <<Digits[(n % 10) + 1]>>

\* float(str) for the literals  digits  and  digits.digits ; text that holds
\* anything but digits and one point raises ValueError.  The value is kept as
\* its whole part and its fraction digits without trailing zeros, so that 2,
\* 2.0 and 2.00 are one value.
RECURSIVE StripZeros(_)
StripZeros(d) ==
    IF Len(d) > 0 /\ d[Len(d)] = "0" THEN StripZeros(SubSeq(d, 1, Len(d) - 1)) ELSE d
AllDigits(d) == Len(d) > 0 /\ \A p \in 1 .. Len(d) : IsDigit(d[p])
IsFloatLiteral(s) ==
    LET parts == Split(s, <<".">>)
    IN  \/ Len(parts) = 1 /\ AllDigits(parts[1])
        \/ Len(parts) = 2 /\ AllDigits(parts[1]) /\ AllDigits(parts[2])
FloatOfStr(s) ==
    LET parts == Split(s, <<".">>)
    IN  [whole |-> DigitsVal(parts[1]),
         frac  |-> IF Len(parts) = 2 THEN StripZeros(parts[2]) ELSE << >>]
FloatOfInt(n) == [whole |-> n, frac |-> << >>]

\* line 182: the lines that start with 'Version ='
VersionLines(lines) == SelectSeq(lines, LAMBDA l : StartsWith(l, VersionPrefix))

\* line 186 raises: no ' = ' in the line (IndexError) or no float after it
VersionRaises(lines) ==
    /\ VersionLines(lines) # << >>
    /\ LET parts == Split(RStripSemi(VersionLines(lines)[1]), EqSep)
       IN  Len(parts) < 2 \/ ~IsFloatLiteral(parts[2])

\* lines 183-186
VersionOf(lines) ==
    IF VersionLines(lines) = << >> THEN FloatOfInt(0)
    ELSE FloatOfStr(Split(RStripSemi(VersionLines(lines)[1]), EqSep)[2])

\* line 189: line.startswith('Sweep = %d;' % sweep_count)
IsSweepLineAnyCount(line, sweep_count) == StartsWith(line, SweepPrefix)
IsSweepLine(line, sweep_count) ==
    StartsWith(line, SweepPrefix \o IntToStr(sweep_count) \o <<";">>)

\* line 191: [part.split(' = ') for part in line.split(';') if '=' in part]
PairsOf(line) ==
    LET parts == SelectSeq(Split(line, <<";">>), HasEq)
    IN  [p \in 1 .. Len(parts) |-> Split(parts[p], EqSep)]

\* dict(pairs): every element must have length 2 (ValueError otherwise); a
\* later pair replaces an earlier one with the same key
DictRaises(pairs) == \E p \in 1 .. Len(pairs) : Len(pairs[p]) # 2
DictOf(pairs) ==
    [k \in {pairs[p][1] : p \in 1 .. Len(pairs)} |->
        pairs[CHOOSE p \in 1 .. Len(pairs) :
                 /\ pairs[p][1] = k
                 /\ \A q \in 1 .. Len(pairs) : pairs[q][1] = k => q <= p][2]]

\* lines 187-192
SweepLines(lines, sweep_count) ==
    SelectSeq(lines, LAMBDA l : IsSweepLine(l, sweep_count))
EpochsOf(lines, sweep_count) ==
    LET sel == SweepLines(lines, sweep_count)
    IN  [p \in 1 .. Len(sel) |-> DictOf(PairsOf(sel[p]))]
EpochsRaise(lines, sweep_count) ==
    LET sel == SweepLines(lines, sweep_count)
    IN  \E p \in 1 .. Len(sel) : DictRaises(PairsOf(sel[p]))

\* '\n'.join(ls)
RECURSIVE JoinLines(_)
JoinLines(ls) ==
    IF Len(ls) = 0 THEN << >>
    ELSE IF Len(ls) = 1 THEN ls[1]
    ELSE ls[1] \o NL \o JoinLines(Tail(ls))

RECURSIVE LineSeqs(_)
LineSeqs(n) ==
    IF n = 0 THEN {<< >>}
    ELSE LET shorter == LineSeqs(n - 1)
         IN  shorter \cup {Append(ls, l) : ls \in {x \in shorter : Len(x) = n - 1}, l \in WaveLines}
WaveNotes == {JoinLines(ls) : ls \in LineSeqs(MaxLines)}

InitWave ==
    /\ IdleNb /\ IdleFin
    /\ rec_notebook \in [count : SweepCounts, note : WaveNotes]
    /\ wpc = "start"
    /\ version = FloatOfInt(0)
    /\ epochs = << >>

\* lines 179-194, no exception
WaveReturn ==
    /\ wpc = "start"
    /\ LET sweep_count == IntOfFloat(rec_notebook.count)
           lines == Split(rec_notebook.note, NL)
       IN  /\ ~VersionRaises(lines)
           /\ ~EpochsRaise(lines, sweep_count)
           /\ version' = VersionOf(lines)
           /\ epochs' = EpochsOf(lines, sweep_count)
    /\ wpc' = "done"
    /\ UNCHANGED <<nbVars, finVars, rec_notebook>>

\* line 186 or line 191 raises
WaveRaise ==
    /\ wpc = "start"
    /\ LET sweep_count == IntOfFloat(rec_notebook.count)
           lines == Split(rec_notebook.note, NL)
       IN  VersionRaises(lines) \/ EpochsRaise(lines, sweep_count)
    /\ wpc' = "error"
    /\ UNCHANGED <<nbVars, finVars, rec_notebook, version, epochs>>

NextWave == WaveReturn \/ WaveRaise

SpecWave == InitWave /\ [][NextWave]_vars

\* the note and sweep count of claim C6
NoteC6 == JoinLines(<<Line_Version2, Line_Sweep3AB, Line_Sweep4A>>)
InputC6 == rec_notebook = [count |-> 3, note |-> NoteC6]

\* C6 as stated: decoding that note for sweep count 3 returns version 2.0 and
\* exactly one epoch, whose mapping is exactly {A: "1", B: "2"}.
C6_EpochIsAB ==
    (wpc = "done" /\ InputC6) =>
        /\ version = FloatOfInt(2)
        /\ Len(epochs) = 1
        /\ DOMAIN epochs[1] = {K_A, K_B}
        /\ epochs[1][K_A] = <<"1">> /\ epochs[1][K_B] = <<"2">>

\* C6 amended: decoding that note for sweep count 3 returns version 2.0 and
\* exactly one epoch, whose mapping is exactly {Sweep: "3", A: "1", B: "2"};
\* the line of sweep count 4 contributes no epoch.
C6_EpochIsSweepAB ==
    (wpc = "done" /\ InputC6) =>
        /\ version = FloatOfInt(2)
        /\ Len(epochs) = 1
        /\ DOMAIN epochs[1] = {K_Sweep, K_A, K_B}
        /\ epochs[1][K_Sweep] = <<"3">>
        /\ epochs[1][K_A] = <<"1">> /\ epochs[1][K_B] = <<"2">>

\* the note of C6 has been decoded for sweep count 3
C6_Witness == wpc = "done" /\ InputC6 /\ Len(epochs) = 1

====
